---------------------------- MODULE Spec2Model ----------------------------
(***************************************************************************)
(* Model of project/rag/retriever.py: one call of retrieve(query, top_k,   *)
(* similarity_threshold), its collaborator calls (OpenAI client, Chroma    *)
(* collection, embedding request, index query) and its selection policy.   *)
(*                                                                         *)
(* Numbers.  Scores are kept as integers in hundredths: One = 100 stands   *)
(* for 1.0, a distance d for d/100, MIN_ACCEPTABLE_SCORE = -55 for -0.55.  *)
(* The effective threshold of a single-word query is threshold * 0.8; it   *)
(* is kept in thousandths (threshold * 8) so that the comparison           *)
(* score >= threshold * 0.8 is exact: 10 * score >= 8 * threshold.         *)
(* Binary rounding of 1.0 - dist and of threshold * 0.8 is not modelled.   *)
(*                                                                         *)
(* A query is a sequence of characters over Chars; " " is the whitespace.  *)
(***************************************************************************)
EXTENDS Integers, Sequences, FiniteSets

VARIABLES
    query,                 \* the query argument of retrieve
    top_k,                 \* the top_k argument of retrieve
    similarity_threshold,  \* the similarity_threshold argument (hundredths)
    pc,                    \* position of the call inside retrieve
    calls,                 \* collaborator calls made so far, in order
    distances,             \* distances returned by collection.query
    result,                \* the returned list, NoResult until the call returns
    error                  \* the propagated failure, "none" while there is none

vars == <<query, top_k, similarity_threshold, pc, calls, distances, result, error>>

----------------------------------------------------------------------------
(* Bounds of the model *)

\* longest query enumerated by Init
MaxQueryLen == 3
\* longest candidate list the index returns in SpecSelect
MaxCands == 7
\* longest candidate list the index returns in Spec
MaxCandsCall == 2

Chars == {"a", " "}
\* distances the index may report: similarities -0.70, -0.55, 0.20 and 0.25
Dists == {170, 155, 80, 75}
TopKs == {1, 4}

----------------------------------------------------------------------------
(* Configuration of retriever.py *)

One == 100
DEFAULT_SIMILARITY_THRESHOLD == 25
DEFAULT_TOP_K == 4
MIN_ACCEPTABLE_SCORE == -55

\* the default, and a threshold below the floor
Thresholds == {DEFAULT_SIMILARITY_THRESHOLD, -100}

NoResult == "NoResult"

Min(a, b) == IF a <= b THEN a ELSE b
Max(a, b) == IF a >= b THEN a ELSE b

----------------------------------------------------------------------------
(* str.strip() and str.split() *)

IsSpace(ch) == ch = " "

RECURSIVE LStrip(_)
LStrip(s) ==
    IF s = <<>> THEN <<>>
    ELSE IF IsSpace(Head(s)) THEN LStrip(Tail(s)) ELSE s

RECURSIVE RStrip(_)
RStrip(s) ==
    IF s = <<>> THEN <<>>
    ELSE IF IsSpace(s[Len(s)]) THEN RStrip(SubSeq(s, 1, Len(s) - 1)) ELSE s

Strip(s) == RStrip(LStrip(s))

\* len(query.split()): the number of maximal runs of non-whitespace
RECURSIVE WordCount(_)
WordCount(s) ==
    IF s = <<>> THEN 0
    ELSE IF IsSpace(Head(s)) THEN WordCount(Tail(s))
    ELSE IF Len(s) = 1 \/ IsSpace(s[2]) THEN 1 + WordCount(Tail(s))
    ELSE WordCount(Tail(s))

IsEmptyQueryNoStrip(q) == q = <<>>

\* not query.strip()
IsEmptyQuery(q) == Strip(q) = <<>>

is_single_word(q) == WordCount(q) = 1

----------------------------------------------------------------------------
(* Effective parameters *)

effective_top_k(single) == IF single THEN 6 ELSE 3

\* in thousandths: similarity_threshold * 0.8 for a single word
effective_threshold(single, thr) == IF single THEN thr * 8 ELSE thr * 10

n_results(single) == Max(effective_top_k(single) * 2, effective_top_k(single))

----------------------------------------------------------------------------
(* Scoring and selection *)

\* the chunk built from the i-th record the index returned
Chunk(dists, i) == [text |-> i, score |-> One - dists[i]]

all_candidates(dists) == [i \in 1..Len(dists) |-> Chunk(dists, i)]

PassesNoRelax(c, single, thr) == c.score * 10 >= thr * 10

Passes(c, single, thr) == c.score * 10 >= effective_threshold(single, thr)

passed_threshold(dists, single, thr) ==
    SelectSeq(all_candidates(dists), LAMBDA c : Passes(c, single, thr))

KeepAll(cs) == cs

\* [c for c in cs if c.score >= MIN_ACCEPTABLE_SCORE]
AboveFloor(cs) == SelectSeq(cs, LAMBDA c : c.score >= MIN_ACCEPTABLE_SCORE)

RECURSIVE InsertUnstable(_, _)
InsertUnstable(sorted, c) ==
    IF sorted = <<>> THEN <<c>>
    ELSE IF Head(sorted).score > c.score
         THEN <<Head(sorted)>> \o InsertUnstable(Tail(sorted), c)
         ELSE <<c>> \o sorted

\* c goes after every element whose score is at least its own
RECURSIVE InsertDesc(_, _)
InsertDesc(sorted, c) ==
    IF sorted = <<>> THEN <<c>>
    ELSE IF Head(sorted).score >= c.score
         THEN <<Head(sorted)>> \o InsertDesc(Tail(sorted), c)
         ELSE <<c>> \o sorted

RECURSIVE SortReversingTies(_)
SortReversingTies(cs) ==
    IF cs = <<>> THEN <<>>
    ELSE InsertUnstable(SortReversingTies(SubSeq(cs, 1, Len(cs) - 1)), cs[Len(cs)])

NoSort(cs) == cs

RECURSIVE InsertionSortDesc(_)
InsertionSortDesc(cs) ==
    IF cs = <<>> THEN <<>>
    ELSE InsertDesc(InsertionSortDesc(SubSeq(cs, 1, Len(cs) - 1)), cs[Len(cs)])

\* cs.sort(key=lambda c: c.score, reverse=True): stable, descending
SortByScoreDesc(cs) == InsertionSortDesc(cs)

TakeAll(cs, k) == cs

\* cs[:k]
Take(cs, k) == SubSeq(cs, 1, Min(k, Len(cs)))

FallbackUnsorted(dists, single) ==
    LET strong_from_all == AboveFloor(all_candidates(dists))
    IN  IF strong_from_all = <<>> THEN <<>>
        ELSE IF single THEN Take(strong_from_all, effective_top_k(single))
        ELSE Take(strong_from_all, 3)

FallbackNoFloor(dists, single) ==
    LET strong_from_all == SortByScoreDesc(all_candidates(dists))
    IN  IF strong_from_all = <<>> THEN <<>>
        ELSE IF single THEN Take(strong_from_all, effective_top_k(single))
        ELSE Take(strong_from_all, 3)

\* lines 167-180
Fallback(dists, single) ==
    LET strong_from_all == AboveFloor(SortByScoreDesc(all_candidates(dists)))
    IN  IF strong_from_all = <<>> THEN <<>>
        ELSE IF single THEN Take(strong_from_all, effective_top_k(single))
        ELSE Take(strong_from_all, 3)

\* lines 149-180
Select(dists, single, thr) ==
    LET passed == passed_threshold(dists, single, thr)
        strong_enough == AboveFloor(passed)
    IN  IF passed # <<>>
        THEN IF single
             THEN IF strong_enough # <<>>
                  THEN Take(SortByScoreDesc(strong_enough), effective_top_k(single))
                  ELSE Fallback(dists, single)
             ELSE IF strong_enough = <<>>
                  THEN <<>>
                  ELSE Take(SortByScoreDesc(strong_enough), effective_top_k(single))
        ELSE Fallback(dists, single)

----------------------------------------------------------------------------
(* The call *)

Queries == UNION {[1..n -> Chars] : n \in 0..MaxQueryLen}

\* one query of each shape: blank, one token, several tokens
ShapeQueries == {<<" ">>, <<"a">>, <<"a", " ", "a">>}

CandidateLists(limit) == UNION {[1..n -> Dists] : n \in 0..limit}

Call(name, ok) == [call |-> name, ok |-> ok]

InitWith(qs) ==
    /\ query \in qs
    /\ top_k \in TopKs
    /\ similarity_threshold \in Thresholds
    /\ pc = "start"
    /\ calls = <<>>
    /\ distances = <<>>
    /\ result = NoResult
    /\ error = "none"

Init == InitWith(Queries)

InitSelect == InitWith(ShapeQueries)

\* lines 96-98: the empty query returns at once
ReturnEmpty ==
    /\ pc = "start"
    /\ IsEmptyQuery(query)
    /\ pc' = "returned"
    /\ result' = <<>>
    /\ UNCHANGED <<query, top_k, similarity_threshold, calls, distances, error>>

\* lines 100-108
Classify ==
    /\ pc = "start"
    /\ ~IsEmptyQuery(query)
    /\ pc' = "openai"
    /\ UNCHANGED <<query, top_k, similarity_threshold, calls, distances, result, error>>

Raise(name, e) ==
    /\ calls' = Append(calls, Call(name, FALSE))
    /\ pc' = "raised"
    /\ error' = e
    /\ UNCHANGED <<query, top_k, similarity_threshold, distances, result>>

Proceed(name, next) ==
    /\ calls' = Append(calls, Call(name, TRUE))
    /\ pc' = next
    /\ UNCHANGED <<query, top_k, similarity_threshold, distances, result, error>>

\* line 110
GetOpenaiClient ==
    /\ pc = "openai"
    /\ \/ Proceed("get_openai_client", "chroma")
       \/ Raise("get_openai_client", "OpenAIError")

\* line 111
GetChromaCollection ==
    /\ pc = "chroma"
    /\ \/ Proceed("get_chroma_collection", "embed")
       \/ Raise("get_chroma_collection", "IndexError")

EmbedFailsRetry ==
    /\ calls' = Append(calls, Call("embed_query", FALSE))
    /\ Len(calls) < 4
    /\ UNCHANGED <<query, top_k, similarity_threshold, pc, distances, result, error>>

EmbedFails == Raise("embed_query", "EmbeddingError")

\* line 113
EmbedQuery ==
    /\ pc = "embed"
    /\ \/ Proceed("embed_query", "query")
       \/ EmbedFails

\* lines 117-180: the index answers with at most n_results records and the
\* rest of retrieve runs to its return
QueryReturns(limit) ==
    \E dists \in CandidateLists(Min(limit, n_results(is_single_word(query)))) :
        /\ calls' = Append(calls, Call("collection.query", TRUE))
        /\ distances' = dists
        /\ result' = Select(dists, is_single_word(query), similarity_threshold)
        /\ pc' = "returned"
        /\ UNCHANGED <<query, top_k, similarity_threshold, error>>

IndexQuery(limit) ==
    /\ pc = "query"
    /\ \/ QueryReturns(limit)
       \/ Raise("collection.query", "IndexError")

NextWith(limit) ==
    \/ ReturnEmpty
    \/ Classify
    \/ GetOpenaiClient
    \/ GetChromaCollection
    \/ EmbedQuery
    \/ IndexQuery(limit)

Next == NextWith(MaxCandsCall)

NextSelect == NextWith(MaxCands)

\* every query up to MaxQueryLen, short candidate lists
Spec == Init /\ [][Next]_vars

\* one query of each shape (ShapeQueries), candidate lists longer than the widest result
SpecSelect == InitSelect /\ [][NextSelect]_vars

----------------------------------------------------------------------------
(* Vocabulary of the properties, stated on the call's inputs and outputs *)

Returned == pc = "returned"

\* the index answered and retrieve returned a selection
Answered == Returned /\ Len(calls) = 4

Blank(q) == \A i \in 1..Len(q) : q[i] = " "

\* positions where a whitespace-separated token starts
TokenStarts(q) == {i \in 1..Len(q) : q[i] # " " /\ (i = 1 \/ q[i - 1] = " ")}

SingleToken == Cardinality(TokenStarts(query)) = 1

TopKOfCall == IF SingleToken THEN 6 ELSE 3

Idx == 1..Len(distances)

Sim(i) == One - distances[i]

OverThreshold(i) ==
    IF SingleToken THEN 10 * Sim(i) >= 8 * similarity_threshold
    ELSE Sim(i) >= similarity_threshold

OverFloor(i) == 100 * Sim(i) >= -55 * One

Returns(i) == \E p \in 1..Len(result) : result[p].text = i

\* j is shown before i: a higher score, or the same score and earlier in the
\* index's order
Precedes(j, i) == Sim(j) > Sim(i) \/ (Sim(j) = Sim(i) /\ j < i)

Rank(i, Q) == Cardinality({j \in Q : Precedes(j, i)})

\* the first K of the candidates Q in that order
Ranked(Q, K) ==
    [p \in 1..Min(K, Cardinality(Q)) |->
        LET i == CHOOSE j \in Q : Rank(j, Q) = p - 1
        IN  [text |-> i, score |-> Sim(i)]]

PrimaryPool == {i \in Idx : OverThreshold(i) /\ OverFloor(i)}

FloorPool == {i \in Idx : OverFloor(i)}

CallsOf(name) == {p \in 1..Len(calls) : calls[p].call = name}

----------------------------------------------------------------------------
(* C1: a query that is empty or only whitespace returns the empty list, and
   no collaborator is created or called. *)
C1_EmptyQueryNoCalls ==
    (Blank(query) /\ pc # "start") =>
        /\ pc = "returned"
        /\ result = <<>>
        /\ calls = <<>>
        /\ error = "none"

C1_Witness == Returned /\ Blank(query) /\ Len(query) >= 2

(* C2: every returned element has similarity (1 - distance of the record it
   was built from) at least -0.55, whatever the threshold and the path. *)
C2_FloorRespected ==
    Returned =>
        \A p \in 1..Len(result) :
            /\ result[p].text \in Idx
            /\ result[p].score = Sim(result[p].text)
            /\ 100 * result[p].score >= -55 * One

C2_Witness ==
    /\ Answered
    /\ 100 * similarity_threshold < -55 * One
    /\ \E i \in Idx : OverThreshold(i) /\ ~OverFloor(i)
    /\ result # <<>>

(* C3: the scores of the returned list are non-increasing by position. *)
C3_ScoresNonIncreasing ==
    Returned =>
        \A p \in 1..(Len(result) - 1) : result[p].score >= result[p + 1].score

C3_Witness ==
    /\ Answered
    /\ Len(result) >= 3
    /\ result[1].score > result[Len(result)].score
    /\ \E p \in 1..(Len(result) - 1) : result[p].text > result[p + 1].text

(* C4: the returned list is never longer than the effective top-K of the
   call: 6 for a single-token query, 3 for a query of several tokens. *)
C4_AtMostEffectiveTopK == Returned => Len(result) <= TopKOfCall

C4_Witness ==
    /\ Answered
    /\ SingleToken
    /\ Cardinality(PrimaryPool) > 6
    /\ Len(result) = 6

(* C5: retrieve returns at most top_k chunks, top_k being the caller's
   argument. *)
C5_AtMostTopK == Returned => Len(result) <= top_k

\* a single-token query where some candidate passes the effective threshold
\* and every passing candidate is below the floor
ScenarioD ==
    /\ Answered
    /\ SingleToken
    /\ \E i \in Idx : OverThreshold(i)
    /\ \A i \in Idx : OverThreshold(i) => ~OverFloor(i)

\* the similarity of i lies between the floor and the effective threshold
BetweenFloorAndThreshold(i) ==
    LET floor == 10 * (-55)
        thr == 8 * similarity_threshold
    IN  /\ Min(floor, thr) * One <= 1000 * Sim(i)
        /\ 1000 * Sim(i) <= Max(floor, thr) * One

(* C6 as claimed: in scenario D, with other candidates between -0.55 and
   the threshold in the pool, retrieve returns a non-empty list of up to 6
   candidates that clear the floor. *)
C6_ScenarioDNonEmpty ==
    (/\ ScenarioD
     /\ \E i, j \in Idx : i # j /\ OverThreshold(i) /\ BetweenFloorAndThreshold(j))
    => (result # <<>> /\ Len(result) <= 6)

(* C6 as amended: in scenario D retrieve falls through to the fallback
   selection, which returns the empty list: every candidate at or above
   -0.55 would have passed the threshold, so none clears the floor. *)
C6_ScenarioDEmpty == ScenarioD => (result = <<>> /\ FloorPool = {})

C6_Witness == ScenarioD /\ Len(distances) >= 2

(* C7: a call makes at most one embedding request and at most one index
   query, the index query only right after the embedding returned; a call
   that returns on a non-blank query made exactly one of each; a failed
   collaborator call is the last one, and the call then ends with the
   failure propagated and no result. *)
C7_OneEmbedThenOneQuery ==
    /\ Cardinality(CallsOf("embed_query")) <= 1
    /\ Cardinality(CallsOf("collection.query")) <= 1
    /\ \A p \in CallsOf("collection.query") :
           p > 1 /\ calls[p - 1] = [call |-> "embed_query", ok |-> TRUE]
    /\ (Returned /\ ~Blank(query)) =>
           /\ Cardinality(CallsOf("embed_query")) = 1
           /\ Cardinality(CallsOf("collection.query")) = 1
           /\ \A p \in 1..Len(calls) : calls[p].ok
           /\ result # NoResult
    /\ \A p \in 1..Len(calls) :
           ~calls[p].ok => (p = Len(calls) /\ pc = "raised")
    /\ pc = "raised" =>
           /\ result = NoResult
           /\ error # "none"
           /\ calls # <<>>
           /\ ~calls[Len(calls)].ok

C7_Witness ==
    /\ Returned
    /\ ~Blank(query)
    /\ result # <<>>
    /\ calls[3] = [call |-> "embed_query", ok |-> TRUE]
    /\ calls[4] = [call |-> "collection.query", ok |-> TRUE]

(* C8: when some candidate is at or above the effective threshold (0.8 x
   threshold for one token, the threshold for several) and at or above
   -0.55, the result is exactly the first 6 / 3 of those candidates by
   descending similarity. *)
C8_PrimarySelection ==
    (Answered /\ PrimaryPool # {}) => result = Ranked(PrimaryPool, TopKOfCall)

C8_Witness ==
    /\ Answered
    /\ SingleToken
    /\ similarity_threshold = DEFAULT_SIMILARITY_THRESHOLD
    /\ \E i \in PrimaryPool : Sim(i) < similarity_threshold
    /\ \E i \in FloorPool : ~OverThreshold(i)
    /\ Len(result) = Cardinality(PrimaryPool)
    /\ Len(result) \in 2..5

(* C9: when no candidate reaches the effective threshold, the result is
   exactly the first 6 / 3 of all candidates at or above -0.55 by
   descending similarity, and it is empty exactly when no candidate
   reaches -0.55. *)
C9_FallbackSelection ==
    (Answered /\ \A i \in Idx : ~OverThreshold(i)) =>
        /\ result = Ranked(FloorPool, TopKOfCall)
        /\ (result = <<>>) <=> (FloorPool = {})

C9_Witness ==
    /\ Answered
    /\ ~SingleToken
    /\ \A i \in Idx : ~OverThreshold(i)
    /\ Cardinality(FloorPool) > 3
    /\ Len(result) = 3
    /\ result[1].score > result[3].score

(* C10: of two returned results with equal similarity the one earlier in
   the index's candidate order comes first, and a candidate cut off by the
   top-K limit comes later in the index's order than every returned result
   of the same similarity. *)
C10_TiesKeepIndexOrder ==
    Answered =>
        /\ \A p, q \in 1..Len(result) :
               (p < q /\ result[p].score = result[q].score) =>
                   result[p].text < result[q].text
        /\ \A i \in FloorPool : \A p \in 1..Len(result) :
               (~Returns(i) /\ result[p].score = Sim(i)) => result[p].text < i

C10_Witness ==
    /\ Answered
    /\ \E p \in 1..(Len(result) - 1) : result[p].score = result[p + 1].score
    /\ \E i \in FloorPool :
           ~Returns(i) /\ result[Len(result)].score = Sim(i)
    /\ result[1].score > result[Len(result)].score

=============================================================================
